---- MODULE Spec2Model ----
(***************************************************************************)
(* A model of the tree-walking interpreter of the `func` language:         *)
(* runtime values, the builtin functions (src/runtime/builtin.rs) and the  *)
(* evaluator (src/runtime/interpreter.rs).                                 *)
(*                                                                         *)
(* Strings are sequences of characters, a character being a one-element    *)
(* TLA+ string.  Numbers are f64 in the program; they are modelled as      *)
(* extended rationals num/den (den = 0: num = 1 is +inf, num = -1 is -inf, *)
(* num = 0 is NaN), which leaves rounding and the sign of zero out.        *)
(***************************************************************************)
EXTENDS Integers, Sequences, FiniteSets, TLC

VARIABLES
    mode,        \* which entry point this behaviour exercises
    pc,          \* position of the driver: "run", "done", "failed", "input", "output"
    program,     \* Interpreter::interpret: the statements executed so far
    variables,   \* Interpreter.variables (VariableBindings): name -> cell
    store,       \* the cells of VariableBindings: cell -> Object
    functions,   \* Interpreter.functions (FunctionBindings): name -> FunctionStatement
    stdout,      \* what print!/println! have written so far
    trace,       \* observation: labels of the statements executed so far
    obs,         \* observation: facts recorded while evaluating (see EmptyObs)
    last,        \* the Result of the last statement / of the function under test
    input        \* the arguments of the pure function under test

vars == <<mode, pc, program, variables, store, functions, stdout, trace, obs, last, input>>

-----------------------------------------------------------------------------
(* Bounds of the model *)

MaxTemplateLen == 5
MaxArgs == 2
MaxProgramLen == 3
MaxNumber == 2

-----------------------------------------------------------------------------
(* Object (common/object.rs): Number | String | Boolean | Nil | Array,     *)
(* each with a Meta record holding the `returning` flag.                   *)

Object(t, n, d, b, s, a) ==
    [type |-> t, num |-> n, den |-> d, bool |-> b, str |-> s, arr |-> a, ret |-> FALSE]

Number(n) == Object("Number", n, 1, FALSE, <<>>, <<>>)
Rational(n, d) == Object("Number", n, d, FALSE, <<>>, <<>>)
String(s) == Object("String", 0, 1, FALSE, s, <<>>)
Boolean(b) == Object("Boolean", 0, 1, b, <<>>, <<>>)
Nil == Object("Nil", 0, 1, FALSE, <<>>, <<>>)
Array(a) == Object("Array", 0, 1, FALSE, <<>>, a)

Types == {"Number", "String", "Boolean", "Nil", "Array"}

\* Object::set_return / Object::is_return
set_return(o) == [o EXCEPT !.ret = TRUE]
is_return(o) == o.ret

\* Meta::default(): a value built by the evaluator carries a cleared flag
Unmarked(o) == [o EXCEPT !.ret = FALSE]

\* Object::is_true: Nil and false are falsy, everything else is truthy
is_true(o) ==
    CASE o.type = "Nil" -> FALSE
      [] o.type = "Boolean" -> o.bool
      [] OTHER -> TRUE

-----------------------------------------------------------------------------
(* Results: Result<Object, Error>.  An Error keeps its kind and the data   *)
(* its message is formatted from.                                          *)

Ok(v) == [ok |-> TRUE, val |-> v, err |-> "", names |-> <<>>, expected |-> 0, got |-> 0]
ErrWith(kind, names, expected, got) ==
    [ok |-> FALSE, val |-> Nil, err |-> kind, names |-> names, expected |-> expected, got |-> got]
Err(kind) == ErrWith(kind, <<>>, 0, 0)

-----------------------------------------------------------------------------
(* Display for Object (Object::to_string)                                  *)

Digit(d) ==
    CASE d = 0 -> "0" [] d = 1 -> "1" [] d = 2 -> "2" [] d = 3 -> "3" [] d = 4 -> "4"
      [] d = 5 -> "5" [] d = 6 -> "6" [] d = 7 -> "7" [] d = 8 -> "8" [] d = 9 -> "9"

RECURSIVE NatToString(_)
NatToString(n) == IF n < 10 THEN <<Digit(n)>> ELSE NatToString(n \div 10) \o <<Digit(n % 10)>>

IntToString(n) == IF n < 0 THEN <<"-">> \o NatToString(-n) ELSE NatToString(n)

NumberToString(o) ==
    CASE o.den = 1 -> IntToString(o.num)
      [] o.den = 0 /\ o.num = 0 -> <<"N", "a", "N">>
      [] o.den = 0 /\ o.num > 0 -> <<"i", "n", "f">>
      [] o.den = 0 /\ o.num < 0 -> <<"-", "i", "n", "f">>
      [] OTHER -> IntToString(o.num) \o <<"/">> \o IntToString(o.den)

RECURSIVE to_string(_)
RECURSIVE JoinToString(_, _)
JoinToString(a, i) ==
    IF i > Len(a) THEN <<>>
    ELSE (IF i > 1 THEN <<",", " ">> ELSE <<>>) \o to_string(a[i]) \o JoinToString(a, i + 1)

to_string(o) ==
    CASE o.type = "Number" -> NumberToString(o)
      [] o.type = "String" -> o.str
      [] o.type = "Boolean" -> IF o.bool THEN <<"t", "r", "u", "e">> ELSE <<"f", "a", "l", "s", "e">>
      [] o.type = "Nil" -> <<"n", "i", "l">>
      [] o.type = "Array" -> <<"[">> \o JoinToString(o.arr, 1) \o <<"]">>

-----------------------------------------------------------------------------
(* Builtin::execute, the Format arm (builtin.rs 202-301)                   *)

\* char::is_numeric: the ASCII digits and other Unicode numeric characters;
\* "sup2" stands for the character SUPERSCRIPT TWO, numeric but no digit.
AsciiDigits == {"0", "1", "2", "3", "4", "5", "6", "7", "8", "9"}
is_numeric(c) == c \in AsciiDigits \cup {"sup2"}

DigitValue(c) ==
    CASE c = "0" -> 0 [] c = "1" -> 1 [] c = "2" -> 2 [] c = "3" -> 3 [] c = "4" -> 4
      [] c = "5" -> 5 [] c = "6" -> 6 [] c = "7" -> 7 [] c = "8" -> 8 [] c = "9" -> 9

\* str::parse::<usize>: -1 stands for Err (a character that is no ASCII digit;
\* the templates of this model are too short to overflow usize)
RECURSIVE ParseFrom(_, _, _)
ParseFrom(s, i, acc) ==
    IF i > Len(s) THEN acc
    ELSE IF s[i] \notin AsciiDigits THEN -1
    ELSE ParseFrom(s, i + 1, acc * 10 + DigitValue(s[i]))

parse_usize(s) == IF s = <<>> THEN -1 ELSE ParseFrom(s, 1, 0)

\* the local variables of the scan (222-226), plus the error that ended it
FormatStart ==
    [result |-> <<>>, arg_index |-> 0, placeholder |-> FALSE, close_placeholder |-> FALSE,
     placeholder_number |-> <<>>, error |-> ""]

\* variant: an indexed placeholder advances the automatic position too
FormatCloseAdvances(s, args) ==
    IF s.placeholder_number = <<>>
    THEN IF s.arg_index < Len(args)
         THEN [s EXCEPT !.result = @ \o to_string(args[s.arg_index + 1]),
                        !.arg_index = @ + 1,
                        !.placeholder = FALSE,
                        !.placeholder_number = <<>>]
         ELSE [s EXCEPT !.error = "NotEnoughArguments"]
    ELSE LET n == parse_usize(s.placeholder_number) IN
         IF n < 0 THEN [s EXCEPT !.error = "InvalidPlaceholderIndex"]
         ELSE IF n < Len(args)
         THEN [s EXCEPT !.result = @ \o to_string(args[n + 1]),
                        !.arg_index = @ + 1,
                        !.placeholder = FALSE,
                        !.placeholder_number = <<>>]
         ELSE [s EXCEPT !.error = "NotEnoughArgumentsIndexed"]

\* variant: a placeholder past the last argument is replaced by nothing
FormatCloseSkips(s, args) ==
    IF s.placeholder_number = <<>>
    THEN IF s.arg_index < Len(args)
         THEN [s EXCEPT !.result = @ \o to_string(args[s.arg_index + 1]),
                        !.arg_index = @ + 1,
                        !.placeholder = FALSE,
                        !.placeholder_number = <<>>]
         ELSE [s EXCEPT !.placeholder = FALSE]
    ELSE LET n == parse_usize(s.placeholder_number) IN
         IF n < 0 THEN [s EXCEPT !.error = "InvalidPlaceholderIndex"]
         ELSE IF n < Len(args)
         THEN [s EXCEPT !.result = @ \o to_string(args[n + 1]),
                        !.placeholder = FALSE,
                        !.placeholder_number = <<>>]
         ELSE [s EXCEPT !.placeholder = FALSE, !.placeholder_number = <<>>]

\* 230-268: a `}` that closes a placeholder
FormatClose(s, args) ==
    IF s.placeholder_number = <<>>
    THEN IF s.arg_index < Len(args)
         THEN [s EXCEPT !.result = @ \o to_string(args[s.arg_index + 1]),
                        !.arg_index = @ + 1,
                        !.placeholder = FALSE,
                        !.placeholder_number = <<>>]
         ELSE [s EXCEPT !.error = "NotEnoughArguments"]
    ELSE LET n == parse_usize(s.placeholder_number) IN
         IF n < 0 THEN [s EXCEPT !.error = "InvalidPlaceholderIndex"]
         ELSE IF n < Len(args)
         THEN [s EXCEPT !.result = @ \o to_string(args[n + 1]),
                        !.placeholder = FALSE,
                        !.placeholder_number = <<>>]
         ELSE [s EXCEPT !.error = "NotEnoughArgumentsIndexed"]

\* 229-297: the body of `for c in format.chars()`
FormatChar(s, c, args) ==
    IF s.placeholder
    THEN IF c = "}" THEN FormatClose(s, args)
         ELSE IF c = "{" THEN [s EXCEPT !.result = Append(@, "{"), !.placeholder = FALSE]
         ELSE IF is_numeric(c) THEN [s EXCEPT !.placeholder_number = Append(@, c)]
         ELSE [s EXCEPT !.error = "InvalidPlaceholder"]
    ELSE IF c = "{" THEN [s EXCEPT !.placeholder = TRUE]
    ELSE IF c = "}" /\ ~s.close_placeholder THEN [s EXCEPT !.close_placeholder = TRUE]
    ELSE IF c = "}" /\ s.close_placeholder
         THEN [s EXCEPT !.result = Append(@, "}"), !.close_placeholder = FALSE]
    ELSE IF s.close_placeholder THEN [s EXCEPT !.error = "UnclosedPlaceholder"]
    ELSE [s EXCEPT !.result = Append(@, c)]

RECURSIVE FormatScan(_, _, _, _)
FormatScan(s, format, i, args) ==
    IF s.error # "" \/ i > Len(format) THEN s
    ELSE FormatScan(FormatChar(s, format[i], args), format, i + 1, args)

\* 202-301
ExecuteFormat(args) ==
    LET format == to_string(args[1]) IN
    IF args[2].type # "Array" THEN Err("FormatExpectedArray")
    ELSE LET s == FormatScan(FormatStart, format, 1, args[2].arr) IN
         IF s.error # "" THEN Err(s.error) ELSE Ok(String(s.result))

-----------------------------------------------------------------------------
(* Builtin::execute, the other arms.  Output and input are effects: the    *)
(* operator returns the Result and the text written to standard output.    *)

\* str::len counts bytes; a character of this model that is not ASCII is
\* encoded in more than one byte of UTF-8
Utf8Len(c) == IF c = "sup2" THEN 2 ELSE 1

RECURSIVE ByteLen(_)
ByteLen(s) == IF s = <<>> THEN 0 ELSE Utf8Len(Head(s)) + ByteLen(Tail(s))

\* 163-173
ExecuteLen(args) ==
    CASE args[1].type = "String" -> Ok(Number(ByteLen(args[1].str)))
      [] args[1].type = "Array" -> Ok(Number(Len(args[1].arr)))
      [] OTHER -> Err("LenNotSupported")

\* 174-187
ExecuteFirst(args) ==
    IF args[1].type = "Array"
    THEN IF args[1].arr # <<>> THEN Ok(args[1].arr[1]) ELSE Ok(Nil)
    ELSE Err("FirstNotSupported")

\* 188-201
ExecuteLast(args) ==
    IF args[1].type = "Array"
    THEN IF args[1].arr # <<>> THEN Ok(args[1].arr[Len(args[1].arr)]) ELSE Ok(Nil)
    ELSE Err("LastNotSupported")

\* variant: pop gives the first element
ExecutePopFront(args) ==
    IF args[1].type = "Array"
    THEN IF args[1].arr # <<>> THEN Ok(args[1].arr[1]) ELSE Ok(Nil)
    ELSE Err("PopNotSupported")

\* 327-340
ExecutePop(args) ==
    IF args[1].type = "Array"
    THEN IF args[1].arr # <<>> THEN Ok(args[1].arr[Len(args[1].arr)]) ELSE Ok(Nil)
    ELSE Err("PopNotSupported")

\* 341-352
ExecutePush(args) ==
    IF args[1].type = "Array"
    THEN Ok(Array(Append(args[1].arr, args[2])))
    ELSE Err("PushNotSupported")

\* 302-309: print!("{}", args[0]) / println!("{}", args[0])
WriteText(args) == to_string(args[1])
WriteLnText(args) == to_string(args[1]) \o <<"\n">>

\* 310-326: the line read is an input of the model; <<"EOF">> marks a failed read
ExecuteReadln(args, line) ==
    IF line = <<"EOF">> THEN Err("FailedToReadLine") ELSE Ok(String(line))

\* ToString for Builtin (357-371) and TryFrom<Token> (373-394): the names
BuiltinNames == {"len", "first", "last", "write", "writeln", "readln", "pop", "push", "format"}

\* 163-344: the execution rule indexes the argument vector past its end
\* (args[0] in every rule, args[1] in Format, and in Push once args[0] is an
\* array); the program panics
OutOfRange(name, args) ==
    \/ Len(args) < 1
    \/ name = "format" /\ Len(args) < 2
    \/ name = "push" /\ Len(args) < 2 /\ args[1].type = "Array"

\* 161-354: Builtin::execute; returns [res, out]
BuiltinExecute(name, args, line) ==
    IF OutOfRange(name, args) THEN [res |-> Err("IndexOutOfBounds"), out |-> <<>>] ELSE
    CASE name = "len" -> [res |-> ExecuteLen(args), out |-> <<>>]
      [] name = "first" -> [res |-> ExecuteFirst(args), out |-> <<>>]
      [] name = "last" -> [res |-> ExecuteLast(args), out |-> <<>>]
      [] name = "format" -> [res |-> ExecuteFormat(args), out |-> <<>>]
      [] name = "write" -> [res |-> Ok(Nil), out |-> WriteText(args)]
      [] name = "writeln" -> [res |-> Ok(Nil), out |-> WriteLnText(args)]
      [] name = "readln" -> [res |-> ExecuteReadln(args, line), out |-> to_string(args[1])]
      [] name = "pop" -> [res |-> ExecutePop(args), out |-> <<>>]
      [] name = "push" -> [res |-> ExecutePush(args), out |-> <<>>]
      [] OTHER -> [res |-> Err("UnknownBuiltin"), out |-> <<>>]

\* variant: push declares its first parameter only
BuiltinParametersShort(name) ==
    CASE name \in {"len", "first", "last", "write", "writeln"} -> <<"value">>
      [] name = "format" -> <<"format", "args">>
      [] name = "readln" -> <<"prompt">>
      [] name = "pop" -> <<"popable">>
      [] name = "push" -> <<"pushable">>

\* 24-130: Builtin::parameters, the names of the declared parameters
BuiltinParameters(name) ==
    CASE name \in {"len", "first", "last", "write", "writeln"} -> <<"value">>
      [] name = "format" -> <<"format", "args">>
      [] name = "readln" -> <<"prompt">>
      [] name = "pop" -> <<"popable">>
      [] name = "push" -> <<"pushable", "value">>

-----------------------------------------------------------------------------
(* f64 arithmetic on the extended rationals *)

Abs(n) == IF n < 0 THEN -n ELSE n
Sign(n) == IF n < 0 THEN -1 ELSE IF n > 0 THEN 1 ELSE 0

RECURSIVE Gcd(_, _)
Gcd(a, b) == IF b = 0 THEN a ELSE Gcd(b, a % b)

\* the number n/d in lowest terms, with a denominator >= 0
Norm(n, d) ==
    IF d = 0 THEN Rational(Sign(n), 0)
    ELSE LET g == Gcd(Abs(n), Abs(d)) IN Rational((Sign(d) * n) \div g, Abs(d) \div g)

IsNaN(x) == x.den = 0 /\ x.num = 0
IsInf(x) == x.den = 0 /\ x.num # 0
NaN == Rational(0, 0)

Neg(x) == Rational(-x.num, x.den)

\* x + y
F64Add(x, y) ==
    IF IsNaN(x) \/ IsNaN(y) THEN NaN
    ELSE IF IsInf(x) /\ IsInf(y) THEN (IF x.num = y.num THEN x ELSE NaN)
    ELSE Norm(x.num * y.den + y.num * x.den, x.den * y.den)

\* x - y
F64Sub(x, y) == F64Add(x, Neg(y))

\* x * y
F64Mul(x, y) == Norm(x.num * y.num, x.den * y.den)

\* x / y: division by zero gives an infinity or NaN, never an error
F64Div(x, y) == F64Mul(x, Norm(y.den, y.num))

\* p/q rounded toward zero
Trunc(x) == IF x.num >= 0 THEN x.num \div x.den ELSE -((-x.num) \div x.den)

\* x % y: the remainder has the sign of x
F64Rem(x, y) ==
    IF IsNaN(x) \/ IsNaN(y) \/ IsInf(x) \/ y.num = 0 THEN NaN
    ELSE IF IsInf(y) THEN x
    ELSE F64Sub(x, F64Mul(y, Number(Trunc(F64Div(x, y)))))

Rank(x) == IF x.den = 0 THEN x.num ELSE 0

\* x < y: false when either is NaN
F64Less(x, y) ==
    /\ ~IsNaN(x)
    /\ ~IsNaN(y)
    /\ IF x.den = 0 \/ y.den = 0 THEN Rank(x) < Rank(y)
       ELSE x.num * y.den < y.num * x.den

F64Eq(x, y) == ~IsNaN(x) /\ ~IsNaN(y) /\ x.num = y.num /\ x.den = y.den

\* PartialEq for Object: same variant and equal payload
ObjectEq(x, y) ==
    IF x.type = "Number" /\ y.type = "Number" THEN F64Eq(x, y) ELSE Unmarked(x) = Unmarked(y)

-----------------------------------------------------------------------------
(* Interpreter::evaluate_binary_expression, the match on the operator       *)
(* applied to the two evaluated operands (interpreter.rs 157-524)           *)

\* the arms every arithmetic and relational operator ends with: equal types
\* it does not support, and `_`
MismatchArms(left, right, unsupported) ==
    IF left.type = right.type /\ left.type \in unsupported
    THEN CASE left.type = "Boolean" -> Err("TypeMismatchBoolean")
           [] left.type = "String" -> Err("TypeMismatchString")
           [] left.type = "Nil" -> Err("TypeMismatchNil")
    ELSE Err("TypeMismatchSameType")

BothNumbers(left, right) == left.type = "Number" /\ right.type = "Number"
BothStrings(left, right) == left.type = "String" /\ right.type = "String"

\* 172-318: Greater, GreaterEqual, Less, LessEqual
EvaluateRelational(op, left, right) ==
    IF BothNumbers(left, right)
    THEN Ok(Boolean(CASE op = "Greater" -> F64Less(right, left)
                      [] op = "GreaterEqual" -> F64Less(right, left) \/ F64Eq(left, right)
                      [] op = "Less" -> F64Less(left, right)
                      [] op = "LessEqual" -> F64Less(left, right) \/ F64Eq(left, right)))
    ELSE IF BothStrings(left, right) THEN Ok(String(left.str \o right.str))
    ELSE MismatchArms(left, right, {"Boolean", "Nil"})

\* variant: `+` turns a Number into its string form next to a String
EvaluatePlusCoerces(left, right) ==
    IF BothNumbers(left, right) THEN Ok(F64Add(left, right))
    ELSE IF {left.type, right.type} \subseteq {"String", "Number"}
    THEN Ok(String(to_string(left) \o to_string(right)))
    ELSE MismatchArms(left, right, {"Boolean", "Nil"})

\* 320-355: Plus
EvaluatePlus(left, right) ==
    IF BothNumbers(left, right) THEN Ok(F64Add(left, right))
    ELSE IF BothStrings(left, right) THEN Ok(String(left.str \o right.str))
    ELSE MismatchArms(left, right, {"Boolean", "Nil"})

\* 357-397: Minus
EvaluateMinus(left, right) ==
    IF BothNumbers(left, right) THEN Ok(F64Sub(left, right))
    ELSE MismatchArms(left, right, {"Boolean", "String", "Nil"})

\* 399-439: Star
EvaluateStar(left, right) ==
    IF BothNumbers(left, right) THEN Ok(F64Mul(left, right))
    ELSE MismatchArms(left, right, {"Boolean", "String", "Nil"})

\* 441-481: Slash
EvaluateSlash(left, right) ==
    IF BothNumbers(left, right) THEN Ok(F64Div(left, right))
    ELSE MismatchArms(left, right, {"Boolean", "String", "Nil"})

\* 483-514: Modulo (no arm for two booleans: they reach `_`)
EvaluateModulo(left, right) ==
    IF BothNumbers(left, right) THEN Ok(F64Rem(left, right))
    ELSE MismatchArms(left, right, {"String", "Nil"})

ArithmeticOperators == {"Plus", "Minus", "Star", "Slash", "Modulo"}
RelationalOperators == {"Greater", "GreaterEqual", "Less", "LessEqual"}
BinaryOperators ==
    {"And", "Or", "EqualEqual", "NotEqual"} \cup RelationalOperators \cup ArithmeticOperators

\* 157-524
ApplyBinary(op, left, right) ==
    CASE op = "And" -> Ok(Boolean(is_true(left) /\ is_true(right)))
      [] op = "Or" -> Ok(Boolean(is_true(left) \/ is_true(right)))
      [] op = "EqualEqual" -> Ok(Boolean(ObjectEq(left, right)))
      [] op = "NotEqual" -> Ok(Boolean(~ObjectEq(left, right)))
      [] op \in RelationalOperators -> EvaluateRelational(op, left, right)
      [] op = "Plus" -> EvaluatePlus(left, right)
      [] op = "Minus" -> EvaluateMinus(left, right)
      [] op = "Star" -> EvaluateStar(left, right)
      [] op = "Slash" -> EvaluateSlash(left, right)
      [] op = "Modulo" -> EvaluateModulo(left, right)
      [] OTHER -> Err("NotABinaryOperator")

\* Interpreter::evaluate_unary_expression, the match on the operator (533-584)
ApplyUnary(op, right) ==
    CASE op = "Not" -> Ok(Boolean(~is_true(right)))
      [] op = "Minus" ->
            (CASE right.type = "Number" -> Ok(F64Mul(right, Number(-1)))
               [] right.type = "Boolean" -> Err("TypeMismatchBoolean")
               [] right.type = "String" -> Err("TypeMismatchString")
               [] right.type = "Nil" -> Err("TypeMismatchNil")
               [] right.type = "Array" -> Err("TypeMismatchArray"))
      [] OTHER -> Err("NotAUnaryOperator")

-----------------------------------------------------------------------------
(* The abstract syntax tree (common/ast.rs).  Every statement carries a    *)
(* label `id`, which is not part of the program: it names the statement in *)
(* the observations.                                                       *)

\* Token: a literal token holds its pre-resolved Object
LiteralToken(o) == [ttype |-> "Literal", hasLiteral |-> TRUE, literal |-> o, lexeme |-> ""]
IdentifierToken(n) == [ttype |-> "Identifier", hasLiteral |-> FALSE, literal |-> Nil, lexeme |-> n]
OtherToken(t) == [ttype |-> t, hasLiteral |-> FALSE, literal |-> Nil, lexeme |-> ""]

\* Expression
Literal(o) == [kind |-> "Literal", object |-> LiteralToken(o)]
Identifier(n) == [kind |-> "Identifier", identifier |-> n]
Binary(l, op, r) == [kind |-> "Binary", left |-> l, operator |-> op, right |-> r]
Unary(op, r) == [kind |-> "Unary", operator |-> op, right |-> r]
Group(c) == [kind |-> "Group", child |-> c]
Call(n, a) == [kind |-> "Call", identifier |-> n, arguments |-> a]
Block(stmts) == [kind |-> "Block", statements |-> stmts]
NoElse == [kind |-> "None"]
If(c, b, e) == [kind |-> "If", condition |-> c, if_block |-> Block(b), else_block |-> e]
ArrayOf(tokens) == [kind |-> "Array", objects |-> tokens]

\* Statement
Let(id, n, e) == [kind |-> "Let", id |-> id, identifier |-> n, expression |-> e]
Assignment(id, n, e) == [kind |-> "Assignment", id |-> id, identifier |-> n, expression |-> e]
Function(id, n, ps, b) ==
    [kind |-> "Function", id |-> id, identifier |-> n, paramiters |-> ps,
     hasBlock |-> TRUE, block |-> Block(b)]
Return(id, e) == [kind |-> "Return", id |-> id, expression |-> e]
ExpressionStatement(id, e) == [kind |-> "Expression", id |-> id, expression |-> e]

\* Builtin::init (133-159): a FunctionStatement without a block per builtin
BuiltinFunction(n) ==
    [kind |-> "Function", id |-> n, identifier |-> n, paramiters |-> BuiltinParameters(n),
     hasBlock |-> FALSE, block |-> Block(<<>>)]

-----------------------------------------------------------------------------
(* The state an evaluation works on: the fields of the Interpreter, the    *)
(* two standard streams, and the observations.                             *)

\* what is recorded while one top-level statement is executed
EmptyObs ==
    [afterReturn |-> FALSE,  \* a statement of a function body began after the body's `return`
     calls |-> <<>>,         \* the finished calls of user functions
     argEvals |-> 0,         \* evaluations of argument expressions
     runs |-> 0,             \* function bodies and builtins that were run
     assigned |-> <<>>,      \* name -> the value the last executed assignment gave it
     written |-> {},         \* the cells assignments have written
     builtins |-> <<>>]      \* the builtins executed: name and number of arguments given

R(st, res) == [st |-> st, res |-> res]

\* VariableBindings (runtime/environment.rs): a table from names to cells; a
\* clone of the table shares the cells.  declare binds the name to a fresh
\* cell, get reads the name's cell, assign writes the name's cell.
declare(st, name, value) ==
    LET cell == Len(st.store) + 1 IN
    [st EXCEPT !.store = Append(@, value),
               !.variables = [n \in DOMAIN @ \cup {name} |-> IF n = name THEN cell ELSE @[n]]]

Declared(st, name) == name \in DOMAIN st.variables

get(st, name) ==
    IF Declared(st, name) THEN Ok(st.store[st.variables[name]])
    ELSE ErrWith("UndefinedIdentifier", <<name>>, 0, 0)

assign(st, name, value) == [st EXCEPT !.store[st.variables[name]] = value]

\* observation: an assignment statement has assigned
Assigned(st, name, value) ==
    [st EXCEPT !.obs.assigned =
                   [n \in DOMAIN @ \cup {name} |-> IF n = name THEN value ELSE @[n]],
               !.obs.written = @ \cup {st.variables[name]}]

\* FunctionBindings: put and get
put(st, name, fs) ==
    [st EXCEPT !.functions = [n \in DOMAIN @ \cup {name} |-> IF n = name THEN fs ELSE @[n]]]

\* observation: a statement of a block begins
Begin(st, stmt) ==
    [st EXCEPT !.trace = Append(@, stmt.id),
               !.obs.afterReturn = @ \/ (st.frames # <<>> /\ st.frames[Len(st.frames)].returned)]

\* observation: the `return e` of a block has evaluated e
Returned(st, value) ==
    IF st.frames = <<>> THEN st
    ELSE [st EXCEPT !.frames[Len(st.frames)] = [returned |-> TRUE, value |-> value]]

\* observation: the body of a user function is entered / has finished
Enter(st) ==
    [st EXCEPT !.frames = Append(@, [returned |-> FALSE, value |-> Nil]), !.obs.runs = @ + 1]

Leave(st, name, result) ==
    LET frame == st.frames[Len(st.frames)] IN
    [st EXCEPT !.frames = SubSeq(@, 1, Len(@) - 1),
               !.obs.calls = Append(@, [name |-> name, returned |-> frame.returned,
                                        value |-> frame.value, result |-> result])]

-----------------------------------------------------------------------------
(* The evaluator (runtime/interpreter.rs).  Every operator takes the state *)
(* and returns R(state afterwards, Result); an Err is returned with the    *)
(* state as it is at the `?` that propagates it.                           *)

RECURSIVE evaluate_expression(_, _)
RECURSIVE execute_statement(_, _)
RECURSIVE BlockLoop(_, _, _, _)
RECURSIVE BindParameters(_, _, _, _)
RECURSIVE EvaluateArguments(_, _, _, _)
RECURSIVE ArrayObjects(_, _, _, _)

\* 57-59: r is what evaluating the initializer gave
LetDeclare(stmt, r) ==
    IF ~r.res.ok THEN r
    ELSE R(declare(r.st, stmt.identifier, r.res.val), Ok(r.res.val))

\* 54-60
execute_let_statement(stmt, st) == LetDeclare(stmt, evaluate_expression(stmt.expression, st))

\* variant: an assignment declares the name anew in the current scope
AssignmentDeclares(stmt, r) ==
    IF ~r.res.ok THEN r
    ELSE IF ~Declared(r.st, stmt.identifier) THEN R(r.st, get(r.st, stmt.identifier))
    ELSE R(Assigned(declare(r.st, stmt.identifier, r.res.val), stmt.identifier, r.res.val),
           Ok(r.res.val))

\* 69-71: r is what evaluating the right-hand side gave
AssignmentAssign(stmt, r) ==
    IF ~r.res.ok THEN r
    ELSE IF ~Declared(r.st, stmt.identifier) THEN R(r.st, get(r.st, stmt.identifier))
    ELSE R(Assigned(assign(r.st, stmt.identifier, r.res.val), stmt.identifier, r.res.val),
           Ok(r.res.val))

\* variant: the right-hand side is evaluated before the name is looked up
AssignmentEvaluatesFirst(stmt, st) ==
    AssignmentAssign(stmt, evaluate_expression(stmt.expression, st))

\* 62-72
execute_assignment_statement(stmt, st) ==
    IF ~Declared(st, stmt.identifier) THEN R(st, get(st, stmt.identifier))
    ELSE AssignmentAssign(stmt, evaluate_expression(stmt.expression, st))

\* 74-81
define_function_statement(stmt, st) == R(put(st, stmt.identifier, stmt), Ok(Nil))

\* 37-52
execute_statement(stmt, st) ==
    CASE stmt.kind = "Let" -> execute_let_statement(stmt, st)
      [] stmt.kind = "Assignment" -> execute_assignment_statement(stmt, st)
      [] stmt.kind = "Function" -> define_function_statement(stmt, st)
      [] stmt.kind = "Expression" -> evaluate_expression(stmt.expression, st)
      [] OTHER -> R(st, Ok(Nil))

\* 132-133: r is what evaluating the expression of `return` gave
BlockReturn(r) ==
    IF ~r.res.ok THEN r
    ELSE R(Returned(r.st, r.res.val), Ok(set_return(r.res.val)))

\* 131-136: one statement of a block
BlockStatement(stmt, st) ==
    IF stmt.kind = "Return" THEN BlockReturn(evaluate_expression(stmt.expression, st))
    ELSE execute_statement(stmt, st)

\* 137: a value that carries the returning flag stops the block
StopsBlock(return_value) == is_return(return_value)

\* 134-139: after statement i, which gave r: propagate the error, break, or go on
BlockAfter(statements, i, r) ==
    IF ~r.res.ok THEN r
    ELSE IF statements[i].kind = "Return" \/ StopsBlock(r.res.val) THEN r
    ELSE BlockLoop(statements, i + 1, r.st, r.res.val)

\* 130-140: the loop over the statements of a block
BlockLoop(statements, i, st, return_value) ==
    IF i > Len(statements) THEN R(st, Ok(return_value))
    ELSE BlockAfter(statements, i, BlockStatement(statements[i], Begin(st, statements[i])))

\* variant: the block leaves its variable table in place
BlockExitKeeps(old_variables, st) == st

\* 141: what the block leaves in self.variables when it ends without error
BlockExit(old_variables, st) == [st EXCEPT !.variables = old_variables]

\* 141-142: r is what the loop gave
BlockEnd(old_variables, r) ==
    IF ~r.res.ok THEN r ELSE R(BlockExit(old_variables, r.st), r.res)

\* 124-143
evaluate_block_expression(block, st) ==
    BlockEnd(st.variables, BlockLoop(block.statements, 1, st, Nil))

\* 112-121: c is what evaluating the condition gave
IfBranch(if_expression, c) ==
    IF ~c.res.ok THEN c
    ELSE evaluate_expression(
            IF is_true(c.res.val) THEN if_expression.if_block
            ELSE IF if_expression.else_block.kind # "None" THEN if_expression.else_block
            ELSE Literal(Nil),
            c.st)

\* 110-122
evaluate_if_expression(if_expression, st) ==
    IfBranch(if_expression, evaluate_expression(if_expression.condition, st))

\* 157-524: l and r are what evaluating the operands gave
BinaryApply(e, l, r) ==
    IF ~r.res.ok THEN r ELSE R(r.st, ApplyBinary(e.operator, l.res.val, r.res.val))

\* variant: `and` and `or` leave the right operand alone when the left one decides
BinaryRightShortCircuits(e, l) ==
    IF ~l.res.ok THEN l
    ELSE IF e.operator = "And" /\ ~is_true(l.res.val) THEN R(l.st, Ok(Boolean(FALSE)))
    ELSE IF e.operator = "Or" /\ is_true(l.res.val) THEN R(l.st, Ok(Boolean(TRUE)))
    ELSE BinaryApply(e, l, evaluate_expression(e.right, l.st))

\* 155: the right operand is evaluated whatever the left one is
BinaryRight(e, l) ==
    IF ~l.res.ok THEN l ELSE BinaryApply(e, l, evaluate_expression(e.right, l.st))

\* 149-157
evaluate_binary_expression(e, st) == BinaryRight(e, evaluate_expression(e.left, st))

\* 533-584
UnaryApply(e, r) == IF ~r.res.ok THEN r ELSE R(r.st, ApplyUnary(e.operator, r.res.val))

\* 527-533
evaluate_unary_expression(e, st) == UnaryApply(e, evaluate_expression(e.right, st))

\* 91: the parameter is declared, and the next one is bound in that table
BindDeclare(paramiters, arguments, i, r) ==
    IF ~r.res.ok THEN r
    ELSE BindParameters(paramiters, arguments, i + 1, declare(r.st, paramiters[i], r.res.val))

\* 89-92: each parameter is bound to its argument, evaluated in the table
\* that already holds the parameters bound before it
BindParameters(paramiters, arguments, i, st) ==
    IF i > Len(paramiters) \/ i > Len(arguments) THEN R(st, Ok(Nil))
    ELSE BindDeclare(paramiters, arguments, i,
                     evaluate_expression(arguments[i], [st EXCEPT !.obs.argEvals = @ + 1]))

ArgumentsCollect(arguments, i, r, values) ==
    IF ~r.res.ok THEN r
    ELSE EvaluateArguments(arguments, i + 1, r.st, Append(values, r.res.val))

\* 98-101: the arguments of a builtin, evaluated (again) into a vector; the
\* Ok value is the Array of the evaluated arguments
EvaluateArguments(arguments, i, st, values) ==
    IF i > Len(arguments) THEN R(st, Ok(Array(values)))
    ELSE ArgumentsCollect(arguments, i,
                          evaluate_expression(arguments[i], [st EXCEPT !.obs.argEvals = @ + 1]),
                          values)

\* the next line of standard input
NextLine(st) == IF st.stdin = <<>> THEN <<"EOF">> ELSE Head(st.stdin)

\* the effects of a builtin on the streams; x is what Builtin::execute gave
BuiltinEffects(name, st, x) ==
    R([st EXCEPT !.stdout = @ \o x.out,
                 !.stdin = IF name = "readln" /\ @ # <<>> THEN Tail(@) ELSE @,
                 !.obs.runs = @ + 1],
      x.res)

\* observation: a builtin is executed on this argument vector
Executing(st, name, args) ==
    [st EXCEPT !.obs.builtins = Append(@, [name |-> name, given |-> Len(args)])]

\* 97-103: execute(arguments, position)?; a is what evaluating the arguments gave
BuiltinRun(name, a) ==
    IF ~a.res.ok THEN a
    ELSE BuiltinEffects(name, Executing(a.st, name, a.res.val.arr),
                        BuiltinExecute(name, a.res.val.arr, NextLine(a.st)))

\* 97-103: Builtin::try_from(identifier)?.execute(arguments, position)?
ExecuteBuiltin(name, arguments, st) ==
    IF name \notin BuiltinNames THEN R(st, Err("UnknownBuiltin"))
    ELSE BuiltinRun(name, EvaluateArguments(arguments, 1, st, <<>>))

\* 106: what the call leaves in self.variables when it ends without error
CallExit(old_variables, st) == [st EXCEPT !.variables = old_variables]

\* 94, 106-107: r is what the body gave
CallEndBlock(old_variables, name, r) ==
    IF ~r.res.ok THEN r
    ELSE R(CallExit(old_variables, Leave(r.st, name, r.res.val)), r.res)

\* 97-107: r is what the builtin gave
CallEndBuiltin(old_variables, r) ==
    IF ~r.res.ok THEN r ELSE R(CallExit(old_variables, r.st), r.res)

\* 93-107: b is what binding the parameters gave
CallBody(old_variables, arguments, function_statement, b) ==
    IF ~b.res.ok THEN b
    ELSE IF function_statement.hasBlock
    THEN CallEndBlock(old_variables, function_statement.identifier,
                      evaluate_expression(function_statement.block, Enter(b.st)))
    ELSE CallEndBuiltin(old_variables,
                        ExecuteBuiltin(function_statement.identifier, arguments, b.st))

\* 83-108
execute_function_statement(arguments, function_statement, st) ==
    CallBody(st.variables, arguments, function_statement,
             BindParameters(function_statement.paramiters, arguments, 1, st))

\* variant: only a call with too many arguments is refused
CompareArityAtMost(arguments_length, paramiters_length) ==
    IF arguments_length > paramiters_length THEN "Greater" ELSE "Equal"

\* 602-635: the comparison of the argument count with the parameter count;
\* "Less", "Greater" or "Equal"
CompareArity(arguments_length, paramiters_length) ==
    IF arguments_length < paramiters_length THEN "Less"
    ELSE IF arguments_length > paramiters_length THEN "Greater"
    ELSE "Equal"

\* 600-635: the function was found
CallFunction(call, function_statement, ordering, st) ==
    CASE ordering = "Less" ->
            R(st, ErrWith("TooFewArguments",
                          SubSeq(function_statement.paramiters, Len(call.arguments) + 1,
                                 Len(function_statement.paramiters)),
                          Len(function_statement.paramiters), Len(call.arguments)))
      [] ordering = "Greater" ->
            R(st, ErrWith("TooManyArguments", <<>>,
                          Len(function_statement.paramiters), Len(call.arguments)))
      [] ordering = "Equal" ->
            execute_function_statement(call.arguments, function_statement, st)

\* 595-636
evaluate_call_expression(call, st) ==
    IF call.identifier \notin DOMAIN st.functions
    THEN R(st, ErrWith("UndefinedIdentifier", <<call.identifier>>, 0, 0))
    ELSE CallFunction(call, st.functions[call.identifier],
                      CompareArity(Len(call.arguments),
                                   Len(st.functions[call.identifier].paramiters)),
                      st)

ArrayPush(objects, i, st, values, v) ==
    IF ~v.ok THEN v ELSE ArrayObjects(objects, i + 1, st, Append(values, v.val))

\* 673-683: the Array arm of match_expression
ArrayObjects(objects, i, st, values) ==
    IF i > Len(objects) THEN Ok(Array(values))
    ELSE IF objects[i].hasLiteral
         THEN ArrayObjects(objects, i + 1, st, Append(values, objects[i].literal))
    ELSE IF objects[i].ttype = "Identifier"
         THEN ArrayPush(objects, i, st, values, get(st, objects[i].lexeme))
    ELSE ArrayObjects(objects, i + 1, st, values)

\* 145-147 and 645-685: evaluate_expression is match_expression
evaluate_expression(e, st) ==
    CASE e.kind = "Binary" -> evaluate_binary_expression(e, st)
      [] e.kind = "Unary" -> evaluate_unary_expression(e, st)
      [] e.kind = "Group" -> evaluate_expression(e.child, st)
      [] e.kind = "Call" -> evaluate_call_expression(e, st)
      [] e.kind = "Identifier" -> R(st, get(st, e.identifier))
      [] e.kind = "Block" -> evaluate_block_expression(e, st)
      [] e.kind = "If" -> evaluate_if_expression(e, st)
      [] e.kind = "Literal" ->
            R(st, IF e.object.hasLiteral THEN Ok(e.object.literal) ELSE Ok(Nil))
      [] e.kind = "Array" -> R(st, ArrayObjects(e.objects, 1, st, <<>>))

-----------------------------------------------------------------------------
(* The inputs of the model *)

RECURSIVE SeqsUpTo(_, _)
SeqsUpTo(S, n) ==
    IF n = 0 THEN {<<>>}
    ELSE LET shorter == SeqsUpTo(S, n - 1) IN
         shorter \cup {Append(q, x) : q \in {r \in shorter : Len(r) = n - 1}, x \in S}

TemplateChars == {"{", "}", "1", "a", "sup2"}
Templates == SeqsUpTo(TemplateChars, MaxTemplateLen)

\* the argument arrays: the first k values of a pool of pairwise different values
ArgPool ==
    <<Number(7), String(<<"{", "}">>), Boolean(TRUE), Array(<<Number(1), Nil>>), Nil>>
ArgArrays == {SubSeq(ArgPool, 1, k) : k \in 0..MaxArgs}

FormatInputs ==
    {<<String(t), Array(a)>> : t \in Templates, a \in ArgArrays}
    \cup {<<Number(1), Array(<<>>)>>, <<String(<<"a">>), Nil>>, <<String(<<"{", "}">>), Number(7)>>}

-----------------------------------------------------------------------------
(* The pure-function drivers: apply one function to one input *)

InitPure(m, inputs) ==
    /\ mode = m
    /\ pc = "input"
    /\ input \in inputs
    /\ program = <<>>
    /\ variables = <<>>
    /\ store = <<>>
    /\ functions = <<>>
    /\ stdout = <<>>
    /\ trace = <<>>
    /\ obs = <<>>
    /\ last = Ok(Nil)

InitFormat == InitPure("format", FormatInputs)

\* a call of Builtin::Format.execute(args, position)
CallFormat ==
    /\ mode = "format"
    /\ pc = "input"
    /\ last' = ExecuteFormat(input)
    /\ pc' = "output"
    /\ UNCHANGED <<mode, program, variables, store, functions, stdout, trace, obs, input>>

NextFormat == CallFormat

SpecFormat == InitFormat /\ [][NextFormat]_vars

\* the operand values: numbers, strings, booleans, nil and arrays
OperandValues ==
    {Number(n) : n \in (-MaxNumber)..MaxNumber}
    \cup {String(<<>>), String(<<"a">>), String(<<"b", "c">>)}
    \cup {Boolean(TRUE), Boolean(FALSE), Nil}
    \cup {Array(<<>>), Array(<<Number(1)>>)}

BinaryInputs == {<<op, l, r>> : op \in BinaryOperators \cup {"Not"}, l \in OperandValues, r \in OperandValues}

InitBinary == InitPure("binary", BinaryInputs)

\* the match of evaluate_binary_expression on two evaluated operands
CallBinary ==
    /\ mode = "binary"
    /\ pc = "input"
    /\ last' = ApplyBinary(input[1], input[2], input[3])
    /\ pc' = "output"
    /\ UNCHANGED <<mode, program, variables, store, functions, stdout, trace, obs, input>>

NextBinary == CallBinary

SpecBinary == InitBinary /\ [][NextBinary]_vars

\* the values a builtin is applied to: arrays, strings (also with a
\* character of more than one byte), numbers, booleans and nil
BuiltinValues ==
    {Array(a) : a \in ArgArrays}
    \cup {Array(<<Nil, Number(1)>>), Array(<<Array(<<>>)>>)}
    \cup {String(<<>>), String(<<"a">>), String(<<"sup2">>), String(<<"a", "sup2", "b">>)}
    \cup {Number(n) : n \in 0..MaxNumber}
    \cup {Boolean(TRUE), Boolean(FALSE), Nil}

BuiltinInputs ==
    {<<n, <<v>>>> : n \in {"len", "first", "last", "pop"}, v \in BuiltinValues}
    \cup {<<"push", <<v, w>>>> : v \in BuiltinValues, w \in {Number(1), Nil, Array(<<>>)}}

InitBuiltin == InitPure("builtin", BuiltinInputs)

\* a call of Builtin::execute(args, position) for len, first, last, pop or push
CallBuiltin ==
    /\ mode = "builtin"
    /\ pc = "input"
    /\ last' = BuiltinExecute(input[1], input[2], <<"EOF">>).res
    /\ pc' = "output"
    /\ UNCHANGED <<mode, program, variables, store, functions, stdout, trace, obs, input>>

NextBuiltin == CallBuiltin

SpecBuiltin == InitBuiltin /\ [][NextBuiltin]_vars

-----------------------------------------------------------------------------
(* The names of the builtins: enum Builtin, ToString, TryFrom<Token> and   *)
(* Builtin::init (runtime/builtin.rs).                                     *)

\* 10-20: the variants of enum Builtin
Builtins == {"Len", "First", "Last", "Write", "WriteLn", "Readln", "Pop", "Push", "Format"}

\* 357-371: impl ToString for Builtin
BuiltinToString(b) ==
    CASE b = "Len" -> "len"
      [] b = "First" -> "first"
      [] b = "Last" -> "last"
      [] b = "Write" -> "write"
      [] b = "WriteLn" -> "writeln"
      [] b = "Readln" -> "readln"
      [] b = "Pop" -> "pop"
      [] b = "Push" -> "push"
      [] b = "Format" -> "format"

\* variant: the lexeme `writeln` is taken for Write
BuiltinTryFromWrite(lexeme) ==
    CASE lexeme = "len" -> Ok("Len")
      [] lexeme = "first" -> Ok("First")
      [] lexeme = "last" -> Ok("Last")
      [] lexeme \in {"write", "writeln"} -> Ok("Write")
      [] lexeme = "readln" -> Ok("Readln")
      [] lexeme = "pop" -> Ok("Pop")
      [] lexeme = "push" -> Ok("Push")
      [] lexeme = "format" -> Ok("Format")
      [] OTHER -> ErrWith("UnknownBuiltin", <<lexeme>>, 0, 0)

\* 373-394: impl TryFrom<Token> for Builtin, on the lexeme of the token
BuiltinTryFrom(lexeme) ==
    CASE lexeme = "len" -> Ok("Len")
      [] lexeme = "first" -> Ok("First")
      [] lexeme = "last" -> Ok("Last")
      [] lexeme = "write" -> Ok("Write")
      [] lexeme = "writeln" -> Ok("WriteLn")
      [] lexeme = "readln" -> Ok("Readln")
      [] lexeme = "pop" -> Ok("Pop")
      [] lexeme = "push" -> Ok("Push")
      [] lexeme = "format" -> Ok("Format")
      [] OTHER -> ErrWith("UnknownBuiltin", <<lexeme>>, 0, 0)

\* 133-159: Builtin::init, a FunctionStatement without block for each variant,
\* named by to_string and with the parameters of the variant
BuiltinInit ==
    [i \in 1..9 |->
        BuiltinFunction(BuiltinToString(
            <<"Len", "First", "Last", "Format", "Write", "WriteLn", "Readln", "Pop", "Push">>[i]))]

\* the lexemes try_from is applied to: the names and some that are none
Lexemes ==
    {BuiltinToString(b) : b \in Builtins}
    \cup {"Len", "WriteLn", "readline", "print", "", "lenn", "f"}

NameInputs == {<<b, lexeme>> : b \in Builtins, lexeme \in Lexemes}

InitNames == InitPure("names", NameInputs)

\* a call of Builtin::try_from(token) on a token with this lexeme
CallTryFrom ==
    /\ mode = "names"
    /\ pc = "input"
    /\ last' = BuiltinTryFrom(input[2])
    /\ pc' = "output"
    /\ UNCHANGED <<mode, program, variables, store, functions, stdout, trace, obs, input>>

NextNames == CallTryFrom

SpecNames == InitNames /\ [][NextNames]_vars

-----------------------------------------------------------------------------
(* The interpreter as a state machine: Interpreter::interpret (30-35) takes *)
(* the statements of a program one after the other; the first error ends    *)
(* the call.  The same Interpreter can be given another program afterwards  *)
(* (the read-eval-print loop).  `program` holds the statements taken so     *)
(* far, the last one being the one `last`, `trace` and `obs` are about.     *)

Num(n) == Literal(Number(n))
Str(s) == Literal(String(s))
Bool(b) == Literal(Boolean(b))
Var(n) == Identifier(n)
Do(id, e) == ExpressionStatement(id, e)

\* let x = 1;  let value = [1, 2];  let v = [x, 2];
LetX == Let("let x", "x", Num(1))
LetValue == Let("let value", "value", ArrayOf(<<LiteralToken(Number(1)), LiteralToken(Number(2))>>))
LetV == Let("let v", "v", ArrayOf(<<IdentifierToken("x"), OtherToken("Comma"), LiteralToken(Number(2))>>))

\* x = 2;
SetX == Assignment("x = 2", "x", Num(2))

\* if true { x = 3; }
IfSetX == Do("if", If(Bool(TRUE), <<Assignment("x = 3", "x", Num(3))>>, NoElse))

\* if x == 1 { let y = 5; if y { x = x + y; let y = 7; } x = x + y; } else { x = 0; }
IfNested ==
    Do("if",
       If(Binary(Var("x"), "EqualEqual", Num(1)),
          <<Let("let y", "y", Num(5)),
            Do("if y", If(Var("y"),
                          <<Assignment("x = x + y", "x", Binary(Var("x"), "Plus", Var("y"))),
                            Let("let y'", "y", Num(7))>>,
                          NoElse)),
            Assignment("x = x + y'", "x", Binary(Var("x"), "Plus", Var("y")))>>,
          Block(<<Assignment("x = 0", "x", Num(0))>>)))

\* { let x = 5; let z = 6; x = 7; }
BlockLetX ==
    Do("block", Block(<<Let("let x'", "x", Num(5)), Let("let z", "z", Num(6)),
                        Assignment("x' = 7", "x", Num(7))>>))

\* if false { } else if true { let x = x; undefined; }
IfFails ==
    Do("if", If(Bool(FALSE), <<>>,
                If(Bool(TRUE), <<Let("let x'", "x", Var("x")), Do("undefined", Var("undefined"))>>,
                   NoElse)))

\* y = write("a");  (y is declared nowhere)
AssignUndeclared == Assignment("y = write(a)", "y", Call("write", <<Str(<<"a">>)>>))

\* let x = x + 1;
LetXAgain == Let("let x = x + 1", "x", Binary(Var("x"), "Plus", Num(1)))

\* return write("a");  return undefined;  as statements of the program
ReturnWrite == Return("return write(a)", Call("write", <<Str(<<"a">>)>>))
ReturnUndefined == Return("return undefined", Var("undefined"))

\* false and write("b");  true or undefined;  write("a") or x;
AndWrites == Do("false and write(b)", Binary(Bool(FALSE), "And", Call("write", <<Str(<<"b">>)>>)))
OrFails == Do("true or undefined", Binary(Bool(TRUE), "Or", Var("undefined")))
OrBoth == Do("write(a) or x", Binary(Call("write", <<Str(<<"a">>)>>), "Or", Var("x")))

ScopeStatements ==
    {LetX, SetX, IfSetX, IfNested, BlockLetX, IfFails,
     AssignUndeclared, LetXAgain, ReturnWrite, ReturnUndefined,
     AndWrites, OrFails, OrBoth}

\* fn f(a, b) { if a { if b { return 7; } write("m"); } else { return b; } write("n"); return 9; }
FnF ==
    Function("fn f", "f", <<"a", "b">>,
        <<Do("if a", If(Var("a"),
                        <<Do("if b", If(Var("b"), <<Return("return 7", Num(7))>>, NoElse)),
                          Do("write m", Call("write", <<Str(<<"m">>)>>))>>,
                        Block(<<Return("return b", Var("b"))>>))),
          Do("write n", Call("write", <<Str(<<"n">>)>>)),
          Return("return 9", Num(9))>>)

\* fn g(a) { let r = if a { { return a; } }; write("k"); }
FnG ==
    Function("fn g", "g", <<"a">>,
        <<Let("let r", "r", If(Var("a"), <<Do("block", Block(<<Return("return a", Var("a"))>>))>>,
                               NoElse)),
          Do("write k", Call("write", <<Str(<<"k">>)>>))>>)

\* fn h(a) { let r = (if a { return 1; }) == 1; write("k"); return 2; }
FnH ==
    Function("fn h", "h", <<"a">>,
        <<Let("let r", "r",
              Binary(Group(If(Var("a"), <<Return("return 1", Num(1))>>, NoElse)),
                     "EqualEqual", Num(1))),
          Do("write k", Call("write", <<Str(<<"k">>)>>)),
          Return("return 2", Num(2))>>)

\* fn one() { return 1; }
FnOne == Function("fn one", "one", <<>>, <<Return("return 1", Num(1))>>)

\* { let r = one(); write("z"); }
BlockCallsOne ==
    Do("block",
       Block(<<Let("let r = one()", "r", Call("one", <<>>)),
               Do("write z", Call("write", <<Str(<<"z">>)>>))>>))

\* let a = nil;
LetA == Let("let a", "a", Literal(Nil))

CallF(id, a, b) == Do(id, Call("f", <<a, b>>))

\* f(true, true);  f(true, nil);  f(nil, 8);  let r = g(f(1, nil));  g(nil);
\* f(write("a"));  f(1, 2, write("a"));  let r = g();  h(true);
\* f(true, a);  g(write("a"));
CallStatements ==
    {FnF, FnG, FnH, FnOne, BlockCallsOne, LetA,
     CallF("f(true, a)", Bool(TRUE), Var("a")),
     Do("g(write(a))", Call("g", <<Call("write", <<Str(<<"a">>)>>)>>)),
     Do("h(true)", Call("h", <<Bool(TRUE)>>)),
     CallF("f(true, true)", Bool(TRUE), Bool(TRUE)),
     CallF("f(true, nil)", Bool(TRUE), Literal(Nil)),
     CallF("f(nil, 8)", Literal(Nil), Num(8)),
     Let("let r = g(f(1, nil))", "r", Call("g", <<Call("f", <<Num(1), Literal(Nil)>>)>>)),
     Do("g(nil)", Call("g", <<Literal(Nil)>>)),
     Do("f(write(a))", Call("f", <<Call("write", <<Str(<<"a">>)>>)>>)),
     Do("f(1, 2, write(a))", Call("f", <<Num(1), Num(2), Call("write", <<Str(<<"a">>)>>)>>)),
     Let("let r = g()", "r", Call("g", <<>>))}

\* write(1);  writeln("a", 2);  write(1, 2, 3);  push(value, 3);  push(v, value);  pop(v);
\* first(value);  last(v);  len(value);  writeln(write(1));  push(v);  format(v, v);
BuiltinStatements ==
    {LetX, LetValue, LetV,
     Do("writeln(write(1))", Call("writeln", <<Call("write", <<Num(1)>>)>>)),
     Do("push(v)", Call("push", <<Var("v")>>)),
     Do("format(v, v)", Call("format", <<Var("v"), Var("v")>>)),
     Do("write(1)", Call("write", <<Num(1)>>)),
     Do("writeln(a, 2)", Call("writeln", <<Str(<<"a">>), Num(2)>>)),
     Do("write(1, 2, 3)", Call("write", <<Num(1), Num(2), Num(3)>>)),
     Do("push(value, 3)", Call("push", <<Var("value"), Num(3)>>)),
     Do("push(v, value)", Call("push", <<Var("v"), Var("value")>>)),
     Do("pop(v)", Call("pop", <<Var("v")>>)),
     Do("first(value)", Call("first", <<Var("value")>>)),
     Do("last(v)", Call("last", <<Var("v")>>)),
     Do("len(value)", Call("len", <<Var("value")>>))}

Suites == {"scope", "calls", "builtins"}

Statements ==
    CASE mode = "scope" -> ScopeStatements
      [] mode = "calls" -> CallStatements
      [] mode = "builtins" -> BuiltinStatements
      [] OTHER -> {}

\* the lines standard input holds
StdinLines == <<<<"h", "i">>>>

\* Interpreter::new(): no variable, and the functions Builtin::init() gives
Init ==
    /\ mode \in Suites
    /\ pc = "run"
    /\ program = <<>>
    /\ variables = <<>>
    /\ store = <<>>
    /\ functions = [n \in BuiltinNames |-> BuiltinFunction(n)]
    /\ stdout = <<>>
    /\ trace = <<>>
    /\ obs = EmptyObs
    /\ last = Ok(Nil)
    /\ input = StdinLines

\* the state the next statement is executed on
Current ==
    [variables |-> variables, store |-> store, functions |-> functions, stdout |-> stdout,
     stdin |-> input, trace |-> <<>>, frames |-> <<>>, obs |-> EmptyObs]

\* variant: the loop of interpret goes on after an error
ExecutedGoesOn(stmt, r) ==
    /\ program' = Append(program, stmt)
    /\ variables' = r.st.variables
    /\ store' = r.st.store
    /\ functions' = r.st.functions
    /\ stdout' = r.st.stdout
    /\ input' = r.st.stdin
    /\ trace' = r.st.trace
    /\ obs' = r.st.obs
    /\ last' = r.res
    /\ pc' = "run"
    /\ UNCHANGED mode

\* 31-33: one turn of the loop of interpret, `self.execute_statement(statement)?`;
\* r is what execute_statement gave
Executed(stmt, r) ==
    /\ program' = Append(program, stmt)
    /\ variables' = r.st.variables
    /\ store' = r.st.store
    /\ functions' = r.st.functions
    /\ stdout' = r.st.stdout
    /\ input' = r.st.stdin
    /\ trace' = r.st.trace
    /\ obs' = r.st.obs
    /\ last' = r.res
    /\ pc' = IF r.res.ok THEN "run" ELSE "failed"
    /\ UNCHANGED mode

Execute(stmt) ==
    /\ pc = "run"
    /\ Len(program) < MaxProgramLen
    /\ Executed(stmt, execute_statement(stmt, Current))

\* 39: Statement::Let
ExecuteLet == \E stmt \in Statements : stmt.kind = "Let" /\ Execute(stmt)

\* 41-43: Statement::Assignment
ExecuteAssignment == \E stmt \in Statements : stmt.kind = "Assignment" /\ Execute(stmt)

\* 45-47: Statement::Function
DefineFunction == \E stmt \in Statements : stmt.kind = "Function" /\ Execute(stmt)

\* 49: Statement::Expression
ExecuteExpression == \E stmt \in Statements : stmt.kind = "Expression" /\ Execute(stmt)

\* 50: Statement::Return, the `_` arm
ExecuteReturn == \E stmt \in Statements : stmt.kind = "Return" /\ Execute(stmt)

\* 34: the program has no more statements, interpret returns Ok(())
InterpretReturns ==
    /\ pc = "run"
    /\ pc' = "done"
    /\ UNCHANGED <<mode, program, variables, store, functions, stdout, trace, obs, last, input>>

\* interpret is called again on the same Interpreter, after Ok or Err
InterpretAgain ==
    /\ pc \in {"done", "failed"}
    /\ Len(program) < MaxProgramLen
    /\ pc' = "run"
    /\ UNCHANGED <<mode, program, variables, store, functions, stdout, trace, obs, last, input>>

Next ==
    \/ ExecuteLet
    \/ ExecuteAssignment
    \/ DefineFunction
    \/ ExecuteExpression
    \/ ExecuteReturn
    \/ InterpretReturns
    \/ InterpretAgain

Spec == Init /\ [][Next]_vars

-----------------------------------------------------------------------------
(* What the documentation of format says a template means: the template is *)
(* read left to right as a sequence of pieces `{{`, `}}`, `{}`, `{N}` (N a *)
(* run of ASCII digits) and ordinary characters.  DocFormat follows that   *)
(* reading up to the first piece that fails:                               *)
(*   "ok"       every piece was rendered, text is the result               *)
(*   "count"    a `{N}` with N >= Len(args), or a `{}` with no argument    *)
(*              left                                                       *)
(*   "close"    a `}` that closes nothing and is no half of `}}`           *)
(*   "open"     a `{` that starts none of `{{`, `{}`, `{N}`                *)

RECURSIVE DigitsEnd(_, _)
DigitsEnd(t, i) == IF i <= Len(t) /\ t[i] \in AsciiDigits THEN DigitsEnd(t, i + 1) ELSE i

RECURSIVE DocFormat(_, _, _, _, _)
DocFormat(t, i, args, next, text) ==
    IF i > Len(t) THEN [kind |-> "ok", text |-> text]
    ELSE IF t[i] = "{"
    THEN IF i < Len(t) /\ t[i + 1] = "{"
         THEN DocFormat(t, i + 2, args, next, Append(text, "{"))
         ELSE LET j == DigitsEnd(t, i + 1) IN
              IF j > Len(t) \/ t[j] # "}" THEN [kind |-> "open", text |-> text]
              ELSE IF j = i + 1
              THEN IF next < Len(args)
                   THEN DocFormat(t, j + 1, args, next + 1, text \o to_string(args[next + 1]))
                   ELSE [kind |-> "count", text |-> text]
              ELSE LET n == ParseFrom(SubSeq(t, i + 1, j - 1), 1, 0) IN
                   IF n < Len(args)
                   THEN DocFormat(t, j + 1, args, next, text \o to_string(args[n + 1]))
                   ELSE [kind |-> "count", text |-> text]
    ELSE IF t[i] = "}"
    THEN IF i < Len(t) /\ t[i + 1] = "}"
         THEN DocFormat(t, i + 2, args, next, Append(text, "}"))
         ELSE [kind |-> "close", text |-> text]
    ELSE DocFormat(t, i + 1, args, next, Append(text, t[i]))

Doc == DocFormat(to_string(input[1]), 1, input[2].arr, 0, <<>>)
FormatReturned == mode = "format" /\ pc = "output" /\ input[2].type = "Array"

\* the number of pieces `{}` and `{N}` of a template that has only well-formed pieces
\* C6: on a template made of well-formed placeholders and escapes only, with
\* enough arguments, format returns the template with the k-th `{}` replaced
\* by the string form of args[k-1], every `{N}` by that of args[N] without
\* advancing the position of later `{}`, `{{` by `{`, `}}` by `}`, and every
\* other character copied in order.
C6_FormatWellFormed ==
    (FormatReturned /\ Doc.kind = "ok") => (last.ok /\ last.val = String(Doc.text))

\* `{1}{}` with the arguments [7, "{}"] has given `{}7`
C6_Witness ==
    /\ FormatReturned
    /\ input[1] = String(<<"{", "1", "}", "{", "}">>)
    /\ Len(input[2].arr) = 2
    /\ last.ok
    /\ last.val = String(<<"{", "}", "7">>)

\* C7: a `}` that closes no placeholder and is no half of `}}` makes format
\* fail with the unclosed-placeholder error.
C7_LoneCloseFails ==
    (FormatReturned /\ Doc.kind = "close") => (~last.ok /\ last.err = "UnclosedPlaceholder")

-----------------------------------------------------------------------------
BinaryReturned == mode = "binary" /\ pc = "output"

\* C5: an arithmetic operator (+ - * / %) applied to operands of different
\* runtime types fails with the type-mismatch error and yields no value; applied
\* to two Numbers it yields a Number; `+` applied to two Strings yields their
\* concatenation.
C5_ArithmeticTypes ==
    (BinaryReturned /\ input[1] \in ArithmeticOperators) =>
        /\ input[2].type # input[3].type => (~last.ok /\ last.err = "TypeMismatchSameType")
        /\ BothNumbers(input[2], input[3]) => (last.ok /\ last.val.type = "Number")
        /\ (input[1] = "Plus" /\ BothStrings(input[2], input[3]))
              => (last.ok /\ last.val = String(input[2].str \o input[3].str))

\* number + string has failed
C5_Witness ==
    /\ BinaryReturned
    /\ input = <<"Plus", Number(1), String(<<"a">>)>>
    /\ last.err = "TypeMismatchSameType"

-----------------------------------------------------------------------------
(* Claims about the interpreter *)

Interpreting == mode \in Suites
LastStatement == program[Len(program)]

\* in a step: a statement was executed
Stepped == Len(program') = Len(program) + 1

\* the names `let` declares and the names of parameters, anywhere in a tree
RECURSIVE DeclaredIn(_)
RECURSIVE DeclaredInAll(_, _)
DeclaredInAll(nodes, i) ==
    IF i > Len(nodes) THEN {} ELSE DeclaredIn(nodes[i]) \cup DeclaredInAll(nodes, i + 1)

DeclaredIn(node) ==
    CASE node.kind = "Let" -> {node.identifier} \cup DeclaredIn(node.expression)
      [] node.kind \in {"Assignment", "Return", "Expression"} -> DeclaredIn(node.expression)
      [] node.kind = "Function" ->
            {node.paramiters[i] : i \in 1..Len(node.paramiters)} \cup DeclaredIn(node.block)
      [] node.kind = "Block" -> DeclaredInAll(node.statements, 1)
      [] node.kind = "If" ->
            DeclaredIn(node.condition) \cup DeclaredIn(node.if_block) \cup DeclaredIn(node.else_block)
      [] node.kind = "Binary" -> DeclaredIn(node.left) \cup DeclaredIn(node.right)
      [] node.kind = "Unary" -> DeclaredIn(node.right)
      [] node.kind = "Group" -> DeclaredIn(node.child)
      [] node.kind = "Call" -> DeclaredInAll(node.arguments, 1)
      [] OTHER -> {}

\* the names a statement, or a function it can call, declares in an inner scope
Redeclared(stmt, fns) ==
    DeclaredIn(stmt) \cup UNION {DeclaredIn(fns[n]) : n \in DOMAIN fns}

IsBlockStatement(stmt) ==
    stmt.kind = "Expression" /\ stmt.expression.kind \in {"Block", "If"}

\* C1: once the body of a user function has executed `return e` in a nested
\* if-block, no further statement of the body is begun, and the call gives the
\* value of e.
C1_ReturnShortCircuits ==
    Interpreting =>
        /\ ~obs.afterReturn
        /\ \A i \in 1..Len(obs.calls) :
              obs.calls[i].returned => ObjectEq(obs.calls[i].result, obs.calls[i].value)

\* C2: an assignment executed inside a block or if-branch, to a name declared
\* outside the block and not declared again inside, is visible after the
\* block: the name resolves to the assigned value.
C2_AssignmentPersists ==
    (Interpreting /\ program # <<>> /\ IsBlockStatement(LastStatement) /\ last.ok) =>
        \A n \in DOMAIN obs.assigned \ Redeclared(LastStatement, functions) :
            /\ n \in DOMAIN variables
            /\ store[variables[n]] = obs.assigned[n]

\* let x = 1; if x == 1 { let y = 5; if y { x = x + y; let y = 7; } x = x + y; } else ... :
\* afterwards x is 11
C2_Witness ==
    /\ Interpreting
    /\ Len(program) > 1
    /\ LastStatement = IfNested
    /\ last.ok
    /\ "x" \in DOMAIN obs.assigned
    /\ store[variables["x"]] = Number(11)

\* C3: when a block (or if-branch) ends without error, every name declared by
\* `let` inside it is bound as it was when the block was entered: declared or
\* not as before, to the same binding, whose value only an assignment to that
\* very binding can have changed.
C3_LetStaysInside ==
    [][(Interpreting /\ Stepped /\ IsBlockStatement(LastStatement') /\ last'.ok) =>
          \A n \in DeclaredIn(LastStatement') :
              /\ n \in DOMAIN variables' <=> n \in DOMAIN variables
              /\ n \in DOMAIN variables =>
                    /\ variables'[n] = variables[n]
                    /\ variables[n] \notin obs'.written =>
                          store'[variables[n]] = store[variables[n]]]_vars

\* let x = 1; { let x = 5; let z = 6; x = 7; } has run: x is 1 and z is not declared
C3_Witness ==
    /\ Interpreting
    /\ Len(program) > 1
    /\ LastStatement = BlockLetX
    /\ last.ok
    /\ "x" \in DOMAIN variables
    /\ store[variables["x"]] = Number(1)
    /\ "z" \notin DOMAIN variables
    /\ Len(store) = 4

\* the call a statement consists of, if it does
IsCallStatement(stmt) ==
    stmt.kind \in {"Expression", "Let"} /\ stmt.expression.kind = "Call"

\* C4: a call whose argument count differs from the parameter count of the
\* function fails: with too few arguments the error names the parameters from
\* position n on, with too many it reports the two counts; no argument is
\* evaluated, nothing is run and the variable table is as before.
C4_ArityMismatch ==
    [][(/\ Interpreting
        /\ Stepped
        /\ IsCallStatement(LastStatement')
        /\ LastStatement'.expression.identifier \in DOMAIN functions
        /\ Len(LastStatement'.expression.arguments)
              # Len(functions[LastStatement'.expression.identifier].paramiters)) =>
          LET n == Len(LastStatement'.expression.arguments)
              ps == functions[LastStatement'.expression.identifier].paramiters
          IN  /\ ~last'.ok
              /\ pc' = "failed"
              /\ n < Len(ps) =>
                    /\ last'.err = "TooFewArguments"
                    /\ last'.names = SubSeq(ps, n + 1, Len(ps))
              /\ n > Len(ps) => last'.err = "TooManyArguments"
              /\ last'.expected = Len(ps)
              /\ last'.got = n
              /\ obs'.argEvals = 0
              /\ obs'.runs = 0
              /\ stdout' = stdout
              /\ variables' = variables
              /\ store' = store]_vars

\* fn f(a, b) {...}; f(write("a")) has failed, naming b
C4_Witness ==
    /\ Interpreting
    /\ program # <<>>
    /\ LastStatement.id = "f(write(a))"
    /\ pc = "failed"
    /\ last.err = "TooFewArguments"
    /\ last.names = <<"b">>
    /\ stdout = <<>>

\* the text `write`/`writeln` would write for these values
RECURSIVE Texts(_, _)
Texts(values, i) ==
    IF i > Len(values) THEN <<>> ELSE to_string(values[i]) \o Texts(values, i + 1)

IsWriteOfLiterals(stmt) ==
    /\ stmt.kind = "Expression"
    /\ stmt.expression.kind = "Call"
    /\ stmt.expression.identifier \in {"write", "writeln"}
    /\ Len(stmt.expression.arguments) >= 1
    /\ \A i \in 1..Len(stmt.expression.arguments) : stmt.expression.arguments[i].kind = "Literal"

\* C9: `write` and `writeln` called with any number n >= 1 of arguments
\* succeed, write the string form of each argument in order, and return Nil.
C9_WriteVariadic ==
    [][(/\ Interpreting
        /\ Stepped
        /\ IsWriteOfLiterals(LastStatement')
        /\ functions[LastStatement'.expression.identifier] = BuiltinFunction(LastStatement'.expression.identifier)) =>
          LET args == LastStatement'.expression.arguments
              values == [i \in 1..Len(args) |-> args[i].object.literal]
          IN  /\ last'.ok
              /\ last'.val = Nil
              /\ stdout' = stdout \o Texts(values, 1)
                              \o (IF LastStatement'.expression.identifier = "writeln"
                                  THEN <<"\n">> ELSE <<>>)]_vars

IsArrayBuiltinCall(stmt) ==
    /\ stmt.kind = "Expression"
    /\ stmt.expression.kind = "Call"
    /\ stmt.expression.identifier \in {"push", "pop", "first", "last", "len"}
    /\ Len(stmt.expression.arguments) = Len(BuiltinParameters(stmt.expression.identifier))
    /\ stmt.expression.arguments[1].kind = "Identifier"

\* C10: after `push(v, item)`, `pop(v)`, `first(v)`, `last(v)` or `len(v)` for a
\* variable v bound to an array, v is bound to the same array as before, and
\* `push` has returned the elements of v followed by item.
C10_ArrayValueSemantics ==
    [][(/\ Interpreting
        /\ Stepped
        /\ IsArrayBuiltinCall(LastStatement')
        /\ functions[LastStatement'.expression.identifier] = BuiltinFunction(LastStatement'.expression.identifier)
        /\ LastStatement'.expression.arguments[1].identifier \in DOMAIN variables
        /\ store[variables[LastStatement'.expression.arguments[1].identifier]].type = "Array"
        /\ LastStatement'.expression.identifier = "push" =>
              evaluate_expression(LastStatement'.expression.arguments[2], Current).res.ok) =>
          LET v == LastStatement'.expression.arguments[1].identifier
              before == store[variables[v]]
          IN  /\ v \in DOMAIN variables'
              /\ store'[variables'[v]] = before
              /\ LastStatement'.expression.identifier = "push" =>
                    /\ last'.ok
                    /\ last'.val =
                          Array(Append(before.arr,
                                       evaluate_expression(LastStatement'.expression.arguments[2],
                                                           Current).res.val))]_vars

-----------------------------------------------------------------------------
(* Claims about the array and length builtins *)

BuiltinReturned == mode = "builtin" /\ pc = "output"

\* C11: for an array, `first` gives its first element, `last` and `pop` its
\* last element, and all three give Nil when the array is empty; for an
\* argument that is no array `first`, `last`, `pop` and `push` fail.
C11_FirstLastPop ==
    (BuiltinReturned /\ input[1] \in {"first", "last", "pop", "push"}) =>
        LET a == input[2][1] IN
        IF a.type # "Array" THEN ~last.ok
        ELSE /\ last.ok
             /\ (input[1] # "push" /\ a.arr = <<>>) => last.val = Nil
             /\ (input[1] = "first" /\ a.arr # <<>>) => last.val = Head(a.arr)
             /\ (input[1] \in {"last", "pop"} /\ a.arr # <<>>) => last.val = a.arr[Len(a.arr)]

\* pop([7, "{}"]) has given "{}"
C11_Witness ==
    /\ BuiltinReturned
    /\ input = <<"pop", <<Array(<<Number(7), String(<<"{", "}">>)>>)>>>>
    /\ last = Ok(String(<<"{", "}">>))

\* C12: `len` of a string is its number of characters, also when a character
\* takes more than one byte; `len` of an array is its number of elements;
\* `len` of a Number, Boolean or Nil fails.
C12_LenCounts ==
    (BuiltinReturned /\ input[1] = "len") =>
        LET v == input[2][1] IN
        CASE v.type = "String" -> last = Ok(Number(Len(v.str)))
          [] v.type = "Array" -> last = Ok(Number(Len(v.arr)))
          [] OTHER -> ~last.ok

-----------------------------------------------------------------------------
(* Claims about interpret and the statements *)

\* what the statements of a program act on
Effects == <<program, variables, store, functions, stdout, input>>

\* C13: interpret takes the statements one at a time, each once and in
\* order, and stops at the first that fails: it returns that error, and no
\* later statement acts on the variable table, the function table or the
\* output.
C13_FailFast ==
    [][Interpreting =>
          /\ Effects' # Effects =>
                /\ pc = "run"
                /\ program' = Append(program, LastStatement')
                /\ pc' = (IF last'.ok THEN "run" ELSE "failed")
          /\ pc = "failed" =>
                /\ ~last.ok
                /\ UNCHANGED <<Effects, last>>]_vars

\* let x = 1; x = 2; y = write("a"): the third statement has failed, the two
\* before it have acted
C13_Witness ==
    /\ Interpreting
    /\ pc = "failed"
    /\ Len(program) = 3
    /\ program[1] = LetX
    /\ program[2] = SetX
    /\ program[3] = AssignUndeclared
    /\ ~last.ok
    /\ store[variables["x"]] = Number(2)

\* C14: an assignment to a name that is not declared fails with the
\* undefined-identifier error, its right-hand side is not evaluated and the
\* variable table is as before; a `let` whose initializer evaluates without
\* error succeeds and binds the name to the value, declared before or not.
C14_AssignmentNeedsDeclaration ==
    [][(Interpreting /\ Stepped) =>
          /\ (/\ LastStatement'.kind = "Assignment"
              /\ LastStatement'.identifier \notin DOMAIN variables) =>
                /\ ~last'.ok
                /\ last'.err = "UndefinedIdentifier"
                /\ last'.names = <<LastStatement'.identifier>>
                /\ obs'.runs = 0
                /\ UNCHANGED <<variables, store, stdout, input>>
          /\ (/\ LastStatement'.kind = "Let"
              /\ evaluate_expression(LastStatement'.expression, Current).res.ok) =>
                /\ last'.ok
                /\ LastStatement'.identifier \in DOMAIN variables'
                /\ store'[variables'[LastStatement'.identifier]] = last'.val
                /\ last'.val = evaluate_expression(LastStatement'.expression, Current).res.val]_vars

\* let x = 1; let x = x + 1; y = write("a"): x is 2, y is not declared, nothing is written
C14_Witness ==
    /\ Interpreting
    /\ Len(program) = 3
    /\ program[2] = LetXAgain
    /\ program[3] = AssignUndeclared
    /\ last.err = "UndefinedIdentifier"
    /\ store[variables["x"]] = Number(2)
    /\ "y" \notin DOMAIN variables
    /\ stdout = <<>>

\* a block whose first statement is, or declares a variable by, a call of a
\* user function with as many arguments as parameters
IsBlockOfCall(stmt, fns) ==
    /\ stmt.kind = "Expression"
    /\ stmt.expression.kind = "Block"
    /\ stmt.expression.statements # <<>>
    /\ IsCallStatement(stmt.expression.statements[1])
    /\ stmt.expression.statements[1].expression.identifier \in DOMAIN fns
    /\ fns[stmt.expression.statements[1].expression.identifier].hasBlock
    /\ Len(fns[stmt.expression.statements[1].expression.identifier].paramiters)
          = Len(stmt.expression.statements[1].expression.arguments)

\* C15: a block that calls a user function whose body executes `return` goes
\* on with its remaining statements after the call.
C15_ReturnStaysInCall ==
    [][(/\ Interpreting
        /\ Stepped
        /\ IsBlockOfCall(LastStatement', functions)
        /\ last'.ok
        /\ obs'.calls # <<>>
        /\ obs'.calls[1].returned) =>
          \A i \in 1..Len(LastStatement'.expression.statements) :
              \E j \in 1..Len(trace') : trace'[j] = LastStatement'.expression.statements[i].id]_vars

\* a call, as a statement, with as many arguments as parameters
IsCallOf(stmt, fns) ==
    /\ stmt.kind = "Expression"
    /\ stmt.expression.kind = "Call"
    /\ stmt.expression.identifier \in DOMAIN fns
    /\ Len(fns[stmt.expression.identifier].paramiters) = Len(stmt.expression.arguments)

\* the values of the argument expressions, each evaluated once and in order
\* in the table of the caller; the Ok value is the Array of the values
RECURSIVE ArgumentsOnce(_, _, _, _)
ArgumentsOnce(arguments, i, st, values) ==
    IF i > Len(arguments) THEN R(st, Ok(Array(values)))
    ELSE LET r == evaluate_expression(arguments[i], st) IN
         IF ~r.res.ok THEN r
         ELSE ArgumentsOnce(arguments, i + 1,
                            [r.st EXCEPT !.variables = st.variables],
                            Append(values, r.res.val))

\* the call of the function on values that are already evaluated
CallOnValues(call, a) ==
    evaluate_expression(
        Call(call.identifier, [i \in 1..Len(a.res.val.arr) |-> Literal(a.res.val.arr[i])]),
        a.st)

HasCallArgument(call) ==
    \E i \in 1..Len(call.arguments) : call.arguments[i].kind = "Call"

\* C16: in a successful call every argument expression is evaluated once, for
\* user functions and builtins alike: what the call writes is what its
\* arguments write, once each, followed by what the function writes.
C16_ArgumentsOnce ==
    [][(/\ Interpreting
        /\ Stepped
        /\ IsCallOf(LastStatement', functions)
        /\ HasCallArgument(LastStatement'.expression)
        /\ last'.ok) =>
          LET a == ArgumentsOnce(LastStatement'.expression.arguments, 1, Current, <<>>)
          IN  /\ a.res.ok
              /\ stdout' = CallOnValues(LastStatement'.expression, a).st.stdout]_vars

HasOnlyNames(call) ==
    \A i \in 1..Len(call.arguments) : call.arguments[i].kind \in {"Identifier", "Literal"}

\* C17: every argument of a call is evaluated in the variable table of the
\* caller as it was before the call: the call gives what it gives on the
\* values its arguments have in that table.
C17_ArgumentsInCallerTable ==
    [][(/\ Interpreting
        /\ Stepped
        /\ IsCallOf(LastStatement', functions)
        /\ functions[LastStatement'.expression.identifier].hasBlock
        /\ HasOnlyNames(LastStatement'.expression)
        /\ ArgumentsOnce(LastStatement'.expression.arguments, 1, Current, <<>>).res.ok) =>
          LET a == ArgumentsOnce(LastStatement'.expression.arguments, 1, Current, <<>>)
              r == CallOnValues(LastStatement'.expression, a)
          IN  /\ last' = r.res
              /\ stdout' = r.st.stdout]_vars

\* C18: when a block or a call fails, the variable table is afterwards the
\* table at the entry of the block or call: no `let` of the block and no
\* parameter of the call stays declared.
C18_FailureRestores ==
    [][(/\ Interpreting
        /\ Stepped
        /\ IsBlockStatement(LastStatement') \/ IsCallStatement(LastStatement')
        /\ ~last'.ok) =>
          variables' = variables]_vars

\* C20: a `return e` executed as a statement of the program evaluates e and
\* gives its value, as the expression statement `e` does; an error of e is
\* the error of the statement.
C20_TopLevelReturn ==
    [][(Interpreting /\ Stepped /\ LastStatement'.kind = "Return") =>
          LET r == evaluate_expression(LastStatement'.expression, Current)
          IN  /\ last' = r.res
              /\ stdout' = r.st.stdout
              /\ pc' = (IF r.res.ok THEN "run" ELSE "failed")]_vars

-----------------------------------------------------------------------------
(* Claims about the relational operators *)

\* C19: a relational expression (`<`, `<=`, `>`, `>=`) that evaluates without
\* error gives a Boolean, for operands of every type.
C19_RelationalBoolean ==
    (BinaryReturned /\ input[1] \in RelationalOperators /\ last.ok)
        => last.val.type = "Boolean"

-----------------------------------------------------------------------------
(* Claims about `and` and `or` *)

IsLogical(stmt) ==
    /\ stmt.kind = "Expression"
    /\ stmt.expression.kind = "Binary"
    /\ stmt.expression.operator \in {"And", "Or"}

\* what `l op r` gives when l is evaluated, then r in the state l left, and
\* the truth values are combined afterwards
EagerLogical(e, l, r) ==
    IF ~l.res.ok THEN l
    ELSE IF ~r.res.ok THEN r
    ELSE R(r.st, Ok(Boolean(IF e.operator = "And"
                            THEN is_true(l.res.val) /\ is_true(r.res.val)
                            ELSE is_true(l.res.val) \/ is_true(r.res.val))))

EagerRight(e, l) ==
    EagerLogical(e, l, evaluate_expression(e.right, IF l.res.ok THEN l.st ELSE Current))

\* C21: `and` and `or` do not short-circuit: the left operand is evaluated,
\* then the right one whatever the left value is, with its output and its
\* errors, and the result is the Boolean conjunction or disjunction of the
\* truth values of the two.
C21_NoShortCircuit ==
    [][(Interpreting /\ Stepped /\ IsLogical(LastStatement')) =>
          LET r == EagerRight(LastStatement'.expression,
                              evaluate_expression(LastStatement'.expression.left, Current))
          IN  /\ last' = r.res
              /\ stdout' = r.st.stdout
              /\ last'.ok => last'.val.type = "Boolean"]_vars

\* false and write("b") has written b and given false; true or undefined fails
C21_Witness ==
    /\ Interpreting
    /\ Len(program) = 2
    /\ program[1] = AndWrites
    /\ program[2] = OrFails
    /\ stdout = <<"b">>
    /\ last.err = "UndefinedIdentifier"
    /\ pc = "failed"

-----------------------------------------------------------------------------
(* Claims about the builtins as entries of the function table *)

\* the number of arguments the execution rule of a builtin indexes
IndexedArguments(name) == IF name \in {"push", "format"} THEN 2 ELSE 1

\* C22: whenever a builtin is executed, the argument vector it is given has
\* at least as many elements as its execution rule indexes (2 for push and
\* format, 1 for the others): no index is out of range.
C22_ArgumentsInRange ==
    Interpreting =>
        /\ last.err # "IndexOutOfBounds"
        /\ \A i \in 1..Len(obs.builtins) :
              obs.builtins[i].given >= IndexedArguments(obs.builtins[i].name)

\* let x = 1; let v = [x, 2]; format(v, v) has executed format on two arguments
C22_Witness ==
    /\ Interpreting
    /\ Len(program) = 3
    /\ LastStatement.id = "format(v, v)"
    /\ last.ok
    /\ obs.builtins = <<[name |-> "format", given |-> 2]>>

-----------------------------------------------------------------------------
(* Claims about the state of the format scanner *)

\* the template ends in a placeholder that is opened and never closed: a `{`
\* followed by digits only, after a well-formed beginning
EndsOpen(t, args) ==
    \E k \in 1..Len(t) :
        /\ t[k] = "{"
        /\ DigitsEnd(t, k + 1) > Len(t)
        /\ DocFormat(SubSeq(t, 1, k - 1), 1, args, 0, <<>>).kind = "ok"

\* s ends with the text e
EndsWith(s, e) == Len(s) >= Len(e) /\ SubSeq(s, Len(s) - Len(e) + 1, Len(s)) = e

\* C23: format fails on a template whose last `{` (with or without digits
\* after it) is never closed, and the digits of a placeholder that was ended
\* by `{` are forgotten: in `{1{{}` the `{}` stands for the first argument.
C23_PlaceholderState ==
    FormatReturned =>
        /\ EndsOpen(to_string(input[1]), input[2].arr) => ~last.ok
        /\ (input[1] = String(<<"{", "1", "{", "{", "}">>) /\ Len(input[2].arr) >= 1) =>
              /\ last.err # "NotEnoughArgumentsIndexed"
              /\ last.ok => EndsWith(last.val.str, to_string(input[2].arr[1]))

-----------------------------------------------------------------------------
(* Claims about the names of the builtins *)

NamesReturned == mode = "names" /\ pc = "output"

\* C24: try_from on the name of a builtin gives that builtin, the nine names
\* are pairwise distinct, init registers one function without body per
\* builtin under its name with its parameters, and any other lexeme makes
\* try_from fail with the unknown-builtin error.
C24_NamesRoundTrip ==
    NamesReturned =>
        /\ input[2] = BuiltinToString(input[1]) => last = Ok(input[1])
        /\ (\A b \in Builtins : input[2] # BuiltinToString(b)) =>
              (~last.ok /\ last.err = "UnknownBuiltin")
        /\ \A b \in Builtins : BuiltinToString(b) = BuiltinToString(input[1]) => b = input[1]
        /\ Len(BuiltinInit) = Cardinality(Builtins)
        /\ \E i \in 1..Len(BuiltinInit) :
              /\ BuiltinInit[i].identifier = BuiltinToString(input[1])
              /\ ~BuiltinInit[i].hasBlock
              /\ BuiltinInit[i].paramiters = BuiltinParameters(BuiltinToString(input[1]))
              /\ \A j \in 1..Len(BuiltinInit) :
                    BuiltinInit[j].identifier = BuiltinInit[i].identifier => j = i

\* try_from on `writeln`, the name of WriteLn, has given WriteLn
C24_Witness ==
    /\ NamesReturned
    /\ input = <<"WriteLn", "writeln">>
    /\ last = Ok("WriteLn")

====
